---- MODULE Spec2Model ----
(***************************************************************************)
(* Model of app.py: the summary_imports persistence layer                  *)
(* (create_table_if_not_exists, add_missing_columns, insert_summary) and   *)
(* the part of main() that sequences them, running against one MySQL       *)
(* table shared by several connections.                                    *)
(*                                                                         *)
(* Text is modelled as a sequence of tokens: a token is either a chunk of  *)
(* identifier characters ("mean", "_", "Value", ...) or one of the pieces  *)
(* of SQL that the code's f-strings put around a column name.  Two keys    *)
(* are the same Python string iff they are the same token sequence.        *)
(***************************************************************************)
EXTENDS Integers, Sequences, FiniteSets, TLC

\* ------------------------------------------------------------------ bounds
\* Total number of runs of main(), over all connections (Spec).
MaxRuns == 2
\* Total number of direct calls of the functions, over all connections
\* (SpecCore).
MaxCalls == 3
\* How many entries of the index of describe() the model keeps.
NumStats == 2

\* The connections that use the table concurrently.
Procs == {1, 2}

\* ------------------------------------------------------------------ text
\* The identifier-quote character of MySQL (the backtick).
BT == "<backtick>"
FLOATKW == " FLOAT"
ADDSEP == ", ADD COLUMN "
COMMA == ", "
INSERTKW == "INSERT INTO summary_imports ("
VALUESKW == ") VALUES ("
CLOSEKW == ")"
PARAM == "%s"
\* A cell of a FLOAT column is <<v>> when it holds the number v, and NULL
\* when it holds none.
NULL == <<>>

\* str.lower() of one token, as MySQL's case-insensitive comparison of column
\* names applies it.
LowerTok(t) ==
  CASE t = "Value" -> "value"
    [] t = "Date" -> "date"
    [] OTHER -> t

Lower(name) == [i \in 1..Len(name) |-> LowerTok(name[i])]

\* [f(x) for x in s]
RECURSIVE Flatten(_)
Flatten(ss) == IF ss = <<>> THEN <<>> ELSE Head(ss) \o Flatten(Tail(ss))

\* sep.join(parts)
RECURSIVE Join(_, _)
Join(parts, sep) ==
  IF parts = <<>> THEN <<>>
  ELSE IF Len(parts) = 1 THEN parts[1]
  ELSE parts[1] \o <<sep>> \o Join(Tail(parts), sep)

Range(s) == {s[i] : i \in 1..Len(s)}

\* col_safe = f"<backtick>{col}<backtick>"
col_safe(col) == <<BT>> \o col \o <<BT>>

\* F(v), with v evaluated once however often F uses it.
With(v, F(_)) == CHOOSE r \in {F(x) : x \in {v}} : TRUE

\* ------------------------------------------------------------- MySQL parser
\* The server's lexer for a backtick-quoted identifier.  i is the position
\* after the opening backtick; a doubled backtick is one literal backtick,
\* a single one closes the identifier.  Result: the identifier's name and the
\* position after the closing backtick, or ok = FALSE when it is unterminated.
RECURSIVE LexIdent(_, _, _)
LexIdent(toks, i, acc) ==
  IF i > Len(toks) THEN [ok |-> FALSE, name |-> acc, next |-> i]
  ELSE IF toks[i] = BT
    THEN IF i + 1 <= Len(toks) /\ toks[i + 1] = BT
           THEN LexIdent(toks, i + 2, Append(acc, BT))
           ELSE [ok |-> TRUE, name |-> acc, next |-> i + 1]
    ELSE LexIdent(toks, i + 1, Append(acc, toks[i]))

\* alter_spec list: BT name BT FLOAT {, ADD COLUMN BT name BT FLOAT}
\* Result: the column names the statement adds, or ok = FALSE (error 1064).
RECURSIVE ParseAddColumns(_, _, _)
ParseAddColumns(toks, i, cols) ==
  IF i > Len(toks) \/ toks[i] # BT THEN [ok |-> FALSE, cols |-> cols]
  ELSE With(LexIdent(toks, i + 1, <<>>), LAMBDA id :
    IF ~id.ok \/ id.next > Len(toks) \/ toks[id.next] # FLOATKW
      THEN [ok |-> FALSE, cols |-> cols]
    ELSE IF id.next = Len(toks)
      THEN [ok |-> TRUE, cols |-> Append(cols, id.name)]
    ELSE IF toks[id.next + 1] = ADDSEP
      THEN ParseAddColumns(toks, id.next + 2, Append(cols, id.name))
    ELSE [ok |-> FALSE, cols |-> cols])

\* insert column list: BT name BT {, BT name BT}
RECURSIVE ParseColumnList(_, _, _)
ParseColumnList(toks, i, cols) ==
  IF i > Len(toks) \/ toks[i] # BT THEN [ok |-> FALSE, cols |-> cols]
  ELSE With(LexIdent(toks, i + 1, <<>>), LAMBDA id :
    IF ~id.ok THEN [ok |-> FALSE, cols |-> cols]
    ELSE IF id.next > Len(toks)
      THEN [ok |-> TRUE, cols |-> Append(cols, id.name)]
    ELSE IF toks[id.next] = COMMA
      THEN ParseColumnList(toks, id.next + 1, Append(cols, id.name))
    ELSE [ok |-> FALSE, cols |-> cols])

\* ------------------------------------------------------------- MySQL table
\* The fixed columns of CREATE TABLE summary_imports.
FixedColumns == {<<"id">>, <<"filename">>, <<"timestamp">>}

\* Does the table have the column that an identifier names?  Column names
\* are compared without regard to case.
HasColumn(cols, name) == \E c \in cols : Lower(c) = Lower(name)

NoDuplicates(names) ==
  \A i, j \in 1..Len(names) : i # j => Lower(names[i]) # Lower(names[j])

\* Mutant: the table is dropped and created again.
ExecCreateTable_Recreate(t) ==
  [exists |-> TRUE, columns |-> FixedColumns, rows |-> {}, nextId |-> 1]

\* CREATE TABLE IF NOT EXISTS summary_imports (id INT AUTO_INCREMENT PRIMARY
\* KEY, filename VARCHAR(255), timestamp DATETIME)
ExecCreateTable(t) ==
  IF t.exists THEN t
  ELSE [exists |-> TRUE, columns |-> FixedColumns, rows |-> {}, nextId |-> 1]

\* Mutant: the added columns are FLOAT NOT NULL DEFAULT 0.
Widen_Zero(row, cols, added) ==
  [c \in cols \cup added |-> IF c \in cols THEN row[c] ELSE <<0>>]

\* A row of the table after the columns `added` were added: they read NULL.
Widen(row, cols, added) ==
  [c \in cols \cup added |-> IF c \in cols THEN row[c] ELSE NULL]

\* Mutant: the statement replaces the dynamic columns by the ones it names.
ExecAlterTable_Replace(t, toks) ==
  With(toks, LAMBDA text : With(ParseAddColumns(text, 1, <<>>), LAMBDA parsed :
  LET cols == FixedColumns \cup Range(parsed.cols)
  IN IF ~parsed.ok \/ ~t.exists THEN [err |-> "syntax", table |-> t]
     ELSE [err |-> "none",
           table |-> [t EXCEPT !.columns = cols,
                               !.rows = {[c \in cols |->
                                            IF c \in DOMAIN r THEN r[c] ELSE NULL]
                                          : r \in t.rows}]]))

\* ALTER TABLE summary_imports ADD COLUMN <toks>.  The statement is atomic:
\* it adds every column it names, or fails and adds none.
ExecAlterTable(t, toks) ==
  With(toks, LAMBDA text : With(ParseAddColumns(text, 1, <<>>), LAMBDA parsed :
  LET names == parsed.cols
      added == Range(names)
  IN IF ~parsed.ok THEN [err |-> "syntax", table |-> t]
     ELSE IF ~t.exists THEN [err |-> "no_table", table |-> t]
     ELSE IF \E n \in added : n = <<>> THEN [err |-> "bad_name", table |-> t]
     ELSE IF ~NoDuplicates(names) \/ \E n \in added : HasColumn(t.columns, n)
       THEN [err |-> "dup_column", table |-> t]
     ELSE [err |-> "none",
           table |-> [t EXCEPT !.columns = t.columns \cup added,
                               !.rows = {Widen(r, t.columns, added) : r \in t.rows}]]))

\* SHOW COLUMNS FROM summary_imports; [row[0] for row in cursor.fetchall()]
ExecShowColumns(t) ==
  IF t.exists THEN [err |-> "none", names |-> t.columns]
  ELSE [err |-> "no_table", names |-> {}]

\* line 68 gives every added column the type FLOAT: MySQL keeps such a value
\* in single precision and returns it with FLT_DIG significant decimal digits.
\* The numbers of the model are naturals.
FLT_DIG == 6

RECURSIVE RoundFloat(_)
RoundFloat(v) == IF v < 10 ^ FLT_DIG THEN v ELSE 10 * RoundFloat((v + 5) \div 10)

\* The value a column of the table holds after `v` was written to it:
\* filename VARCHAR(255) and timestamp DATETIME (lines 54-55) keep what the
\* model writes to them, a column added by line 68 is FLOAT.
StoreAs(c, v) == IF HasColumn(FixedColumns, c) THEN v ELSE <<RoundFloat(v)>>

\* Mutant: the statement's columns that the table does not have are left
\* out of the row instead of being refused.
ExecInsertRow_DropUnknown(t, toks, values) ==
  With(toks, LAMBDA text : With(ParseColumnList(text, 1, <<>>), LAMBDA parsed :
  LET names == parsed.cols
      At(c) == CHOOSE i \in 1..Len(names) : Lower(names[i]) = Lower(c)
  IN IF ~parsed.ok THEN [err |-> "syntax", row |-> <<>>]
     ELSE IF ~t.exists THEN [err |-> "no_table", row |-> <<>>]
     ELSE [err |-> "none",
           row |-> [c \in t.columns |->
                      IF c = <<"id">> /\ ~HasColumn(Range(names), c) THEN t.nextId
                      ELSE IF HasColumn(Range(names), c)
                        THEN StoreAs(c, values[At(c)])
                      ELSE NULL]]))

\* INSERT INTO summary_imports (<toks>) VALUES (%s, ..., %s) with the bound
\* `values`: the row it would add, or the server's error.
ExecInsertRow(t, toks, values) ==
  With(toks, LAMBDA text : With(ParseColumnList(text, 1, <<>>), LAMBDA parsed :
  LET names == parsed.cols
      At(c) == CHOOSE i \in 1..Len(names) : Lower(names[i]) = Lower(c)
  IN IF ~parsed.ok THEN [err |-> "syntax", row |-> <<>>]
     ELSE IF ~t.exists THEN [err |-> "no_table", row |-> <<>>]
     ELSE IF \E n \in Range(names) : ~HasColumn(t.columns, n)
       THEN [err |-> "unknown_column", row |-> <<>>]
     ELSE IF ~NoDuplicates(names) THEN [err |-> "column_twice", row |-> <<>>]
     ELSE IF Len(names) # Len(values) THEN [err |-> "count_mismatch", row |-> <<>>]
     ELSE [err |-> "none",
           row |-> [c \in t.columns |->
                      IF c = <<"id">> /\ ~HasColumn(Range(names), c) THEN t.nextId
                      ELSE IF HasColumn(Range(names), c)
                        THEN StoreAs(c, values[At(c)])
                      ELSE NULL]]))

\* cursor.execute(sql, values) for the INSERT statement of line 77.  The
\* connector puts one value in the place of each %s and refuses the call when
\* their numbers differ; the server then reads the column list and the list
\* of values.
ExecInsert(t, statement, values) ==
  With(statement, LAMBDA sql :
  LET at == {i \in DOMAIN sql : sql[i] = VALUESKW}
      first == CHOOSE i \in at : \A j \in at : i <= j
      toks == SubSeq(sql, 2, first - 1)
      holes == SubSeq(sql, first + 1, Len(sql) - 1)
      nparams == Cardinality({i \in DOMAIN sql : sql[i] = PARAM})
  IN IF nparams # Len(values) THEN [err |-> "params", row |-> <<>>]
     ELSE IF Len(sql) < 3 \/ sql[1] # INSERTKW \/ at = {} \/ sql[Len(sql)] # CLOSEKW
       THEN [err |-> "syntax", row |-> <<>>]
     ELSE IF \E i \in DOMAIN holes :
               holes[i] # (IF i % 2 = 1 THEN PARAM ELSE COMMA)
       THEN [err |-> "syntax", row |-> <<>>]
     ELSE ExecInsertRow(t, toks, values))

\* ------------------------------------------------------------------ inputs
\* The index of DataFrame.describe() for numeric columns.
DescribeIndex == <<"count", "mean", "std", "min", "25%", "50%", "75%", "max">>
DescribeStats == SubSeq(DescribeIndex, 1, NumStats)

\* The uploaded CSV files: name, number of columns, which of the two columns
\* that main() keeps ("Date", "Value") hold numbers, and a seed that stands
\* for the file's contents.
Uploads ==
  { [name |-> "a.csv", ncols |-> 2, numeric |-> <<"Value">>, seed |-> 100],
    [name |-> "b.csv", ncols |-> 3, numeric |-> <<"Date", "Value">>,
                      seed |-> 1234500],
    [name |-> "c.csv", ncols |-> 2, numeric |-> <<>>, seed |-> 400],
    [name |-> "d.csv", ncols |-> 1, numeric |-> <<"Date">>, seed |-> 500] }

\* summary = df.describe().transpose().to_dict(orient="index"), flattened:
\* for col, stats in summary.items(): for stat, val in stats.items():
\*   flat_summary[f"{stat}_{col}"] = float(val)
\* The ordered mapping is a sequence of <<key, value>> pairs.
FlatSummaryOf(f) ==
  Flatten([j \in 1..Len(f.numeric) |->
             [i \in 1..Len(DescribeStats) |->
                << <<DescribeStats[i], "_", f.numeric[j]>>, f.seed + 10 * j + i >>]])

\* list(summary_dict.keys()), list(summary_dict.values())
KeysOf(d) == [i \in 1..Len(d) |-> d[i][1]]
ValuesOf(d) == [i \in 1..Len(d) |-> d[i][2]]

\* datetime.datetime.now().strftime(...): the clock is the number of runs
\* started so far.
Now(n) == <<"t", n>>

\* ------------------------------------------------------------------- state
VARIABLES
  table,             \* summary_imports: [exists, columns, rows, nextId]
  pending,           \* per connection: rows inserted and not yet committed
  driver,            \* per connection: "main" (main() runs) or "direct"
  pc,                \* per connection: position in the code
  conn,              \* per connection: is it open
  file_name,         \* argument of insert_summary
  summary_dict,      \* argument of insert_summary (flat_summary in main)
  summary_columns,   \* argument of add_missing_columns
  existing_columns,  \* local of add_missing_columns
  idx,               \* position of the for loop of add_missing_columns
  log,               \* per connection: the calls completed without error
  err,               \* per connection: the error of the last call, or "none"
  ui,                \* per connection: the st.success / st.error boxes shown
  callee,            \* per connection: the function called last ("" in main)
  runs               \* number of runs of main() / of direct calls so far

vars == <<table, pending, driver, pc, conn, file_name, summary_dict,
          summary_columns, existing_columns, idx, log, err, ui, callee, runs>>

NoTable == [exists |-> FALSE, columns |-> {}, rows |-> {}, nextId |-> 1]

InitLocals ==
  /\ table = NoTable
  /\ pending = [p \in Procs |-> {}]
  /\ file_name = [p \in Procs |-> ""]
  /\ summary_dict = [p \in Procs |-> <<>>]
  /\ summary_columns = [p \in Procs |-> <<>>]
  /\ existing_columns = [p \in Procs |-> {}]
  /\ idx = [p \in Procs |-> 1]
  /\ log = [p \in Procs |-> <<>>]
  /\ err = [p \in Procs |-> "none"]
  /\ ui = [p \in Procs |-> {}]
  /\ callee = [p \in Procs |-> ""]
  /\ runs = 0

Init ==
  /\ InitLocals
  /\ driver = [p \in Procs |-> "main"]
  /\ pc = [p \in Procs |-> "idle"]
  /\ conn = [p \in Procs |-> FALSE]

\* Where control goes when the function fn returns / raises.
\* main(): lines 111, 156-165 run the calls in sequence; an exception of
\* line 111 is not caught, one inside the try block reaches line 189.
ReturnTo(p, fn) ==
  IF driver[p] = "main"
    THEN CASE fn = "create" -> "upload"
           [] fn = "add" -> "insert"
           [] fn = "insert" -> "commit"
           [] fn = "commit" -> "plot"
    ELSE "ready"

\* Mutant: an error of add_missing_columns is swallowed and main() goes on
\* to insert_summary.
RaiseTo_Swallow(p, fn) ==
  IF driver[p] = "main"
    THEN CASE fn = "create" -> "crashed"
           [] fn = "add" -> "insert"
           [] OTHER -> "except"
    ELSE "ready"

\* Mutant: main() runs add_missing_columns again when it has raised.
RaiseTo_Retry(p, fn) ==
  IF driver[p] = "main"
    THEN CASE fn = "create" -> "crashed"
           [] fn = "add" -> "show"
           [] OTHER -> "except"
    ELSE "ready"

RaiseTo(p, fn) ==
  IF driver[p] = "main"
    THEN IF fn = "create" THEN "crashed" ELSE "except"
    ELSE "ready"

Return(p, fn) ==
  /\ pc' = [pc EXCEPT ![p] = ReturnTo(p, fn)]
  /\ err' = [err EXCEPT ![p] = "none"]
  /\ log' = [log EXCEPT ![p] =
               Append(@, [fn |-> fn,
                          keys |-> IF fn = "add" THEN summary_columns[p] ELSE <<>>])]

Raise(p, fn, e) ==
  /\ pc' = [pc EXCEPT ![p] = RaiseTo(p, fn)]
  /\ err' = [err EXCEPT ![p] = e]
  /\ log' = log

\* A DDL statement commits the connection's open transaction first.
ImplicitCommit(t, p) == [t EXCEPT !.rows = @ \cup pending[p]]

\* An uncommitted insert of another connection holds a metadata lock on the
\* table, and ALTER TABLE waits for it.
TableLocked(p) == \E q \in Procs \ {p} : pending[q] # {}

\* ------------------------------------------------ create_table_if_not_exists
create_table_if_not_exists(p) ==
  /\ pc[p] = "create"
  /\ \E fault \in BOOLEAN :
       IF fault
         THEN /\ Raise(p, "create", "store")
              /\ UNCHANGED <<table, pending>>
         ELSE /\ table' = ExecCreateTable(ImplicitCommit(table, p))
              /\ pending' = [pending EXCEPT ![p] = {}]
              /\ Return(p, "create")
  /\ UNCHANGED <<driver, callee, conn, file_name, summary_dict, summary_columns,
                 existing_columns, idx, ui, runs>>

\* ------------------------------------------------------- add_missing_columns
\* lines 62-63
add_missing_columns_show(p) ==
  /\ pc[p] = "show"
  /\ \E fault \in BOOLEAN :
       LET res == ExecShowColumns(table) IN
       IF fault \/ res.err # "none"
         THEN /\ Raise(p, "add", IF fault THEN "store" ELSE res.err)
              /\ UNCHANGED <<existing_columns, idx>>
         ELSE /\ existing_columns' = [existing_columns EXCEPT ![p] = res.names]
              /\ idx' = [idx EXCEPT ![p] = 1]
              /\ pc' = [pc EXCEPT ![p] = "loop"]
              /\ UNCHANGED <<err, log>>
  /\ UNCHANGED <<table, pending, driver, callee, conn, file_name, summary_dict,
                 summary_columns, ui, runs>>

\* Mutant: the test of line 66 is inverted.
IsMissing_Inverted(col, existing) == col \in existing

\* line 66: if col not in existing_columns
IsMissing(col, existing) == col \notin existing

\* lines 65-66, a column that is in existing_columns
add_missing_columns_skip(p) ==
  /\ pc[p] = "loop"
  /\ idx[p] <= Len(summary_columns[p])
  /\ ~IsMissing(summary_columns[p][idx[p]], existing_columns[p])
  /\ idx' = [idx EXCEPT ![p] = @ + 1]
  /\ UNCHANGED <<table, pending, driver, callee, pc, conn, file_name, summary_dict,
                 summary_columns, existing_columns, log, err, ui, runs>>

\* line 68: the text after "ALTER TABLE summary_imports ADD COLUMN "
AlterText(col) == col_safe(col) \o <<FLOATKW>>

\* lines 65-68, a column that is not in existing_columns
add_missing_columns_alter(p) ==
  /\ pc[p] = "loop"
  /\ idx[p] <= Len(summary_columns[p])
  /\ IsMissing(summary_columns[p][idx[p]], existing_columns[p])
  /\ \E fault \in BOOLEAN :
       LET toks == AlterText(summary_columns[p][idx[p]])
           parsed == ParseAddColumns(toks, 1, <<>>)
           res == ExecAlterTable(ImplicitCommit(table, p), toks)
       IN IF fault
            THEN /\ Raise(p, "add", "store")
                 /\ UNCHANGED <<table, pending, idx>>
          ELSE IF ~parsed.ok
            THEN /\ Raise(p, "add", res.err)
                 /\ UNCHANGED <<table, pending, idx>>
          ELSE /\ ~TableLocked(p)
               /\ table' = res.table
               /\ pending' = [pending EXCEPT ![p] = {}]
               /\ IF res.err # "none"
                    THEN Raise(p, "add", res.err) /\ UNCHANGED idx
                    ELSE /\ idx' = [idx EXCEPT ![p] = @ + 1]
                         /\ UNCHANGED <<pc, err, log>>
  /\ UNCHANGED <<driver, callee, conn, file_name, summary_dict, summary_columns,
                 existing_columns, ui, runs>>

\* the loop is exhausted: the function returns
add_missing_columns_return(p) ==
  /\ pc[p] = "loop"
  /\ idx[p] > Len(summary_columns[p])
  /\ Return(p, "add")
  /\ UNCHANGED <<table, pending, driver, callee, conn, file_name, summary_dict,
                 summary_columns, existing_columns, idx, ui, runs>>

\* ------------------------------------------------------------ insert_summary
\* Mutant: the values are bound in the reverse of the order of the keys.
InsertValues_Reversed(name, ts, d) ==
  <<name, ts>> \o [i \in 1..Len(d) |-> d[Len(d) + 1 - i][2]]

\* lines 71-72
InsertColumns(d) == << <<"filename">>, <<"timestamp">> >> \o KeysOf(d)
InsertValues(name, ts, d) == <<name, ts>> \o ValuesOf(d)

\* line 74: col_str
ColStr(columns) == Join([i \in 1..Len(columns) |-> col_safe(columns[i])], COMMA)

\* line 75: placeholders
Placeholders(values) == Join([i \in 1..Len(values) |-> <<PARAM>>], COMMA)

\* line 77: sql
InsertSql(col_str, placeholders) ==
  <<INSERTKW>> \o col_str \o <<VALUESKW>> \o placeholders \o <<CLOSEKW>>

\* Mutant: the connection is in autocommit mode, the row is durable at once.
ApplyInsert_Autocommit(t, pend, row) ==
  [table |-> [t EXCEPT !.nextId = @ + 1, !.rows = @ \cup {row}], pending |-> pend]

\* Mutant: the insert replaces the rows that have the same filename.
ApplyInsert_Upsert(t, pend, row) ==
  LET Other(rs) == {r \in rs : r[<<"filename">>] # row[<<"filename">>]}
  IN [table |-> [t EXCEPT !.nextId = @ + 1, !.rows = Other(@)],
      pending |-> Other(pend) \cup {row}]

\* line 78, a statement the server accepts: the row joins the connection's
\* open transaction, and the AUTO_INCREMENT counter moves on.
ApplyInsert(t, pend, row) ==
  [table |-> [t EXCEPT !.nextId = @ + 1], pending |-> pend \cup {row}]

insert_summary(p) ==
  /\ pc[p] = "insert"
  /\ \E fault \in BOOLEAN :
       LET columns == InsertColumns(summary_dict[p])
           values == InsertValues(file_name[p], Now(runs), summary_dict[p])
           sql == InsertSql(ColStr(columns), Placeholders(values))
           res == ExecInsert(table, sql, values)
       IN IF fault \/ res.err # "none"
            THEN /\ Raise(p, "insert", IF fault THEN "store" ELSE res.err)
                 /\ UNCHANGED <<table, pending>>
            ELSE /\ pending' = [pending EXCEPT ![p] =
                                 ApplyInsert(table, @, res.row).pending]
                 /\ table' = ApplyInsert(table, pending[p], res.row).table
                 /\ Return(p, "insert")
  /\ UNCHANGED <<driver, callee, conn, file_name, summary_dict, summary_columns,
                 existing_columns, idx, ui, runs>>

\* --------------------------------------------------------------- conn.commit
commit(p) ==
  /\ pc[p] = "commit"
  /\ \E fault \in BOOLEAN :
       IF fault
         THEN /\ Raise(p, "commit", "store")
              /\ UNCHANGED <<table, pending, ui>>
         ELSE /\ table' = [table EXCEPT !.rows = @ \cup pending[p]]
              /\ pending' = [pending EXCEPT ![p] = {}]
              /\ ui' = [ui EXCEPT ![p] =
                          IF driver[p] = "main" THEN @ \cup {"saved"} ELSE @]
              /\ Return(p, "commit")
  /\ UNCHANGED <<driver, callee, conn, file_name, summary_dict, summary_columns,
                 existing_columns, idx, runs>>

\* -------------------------------------------------------------------- main
\* lines 82-111: a (re)run of the script.  The environment may be incomplete
\* (ValueError, lines 89-96), connect_mysql may return None.
main_start(p) ==
  /\ driver[p] = "main"
  /\ pc[p] \in {"idle", "done", "crashed"}
  /\ runs < MaxRuns
  /\ runs' = runs + 1
  /\ \E outcome \in {"no_env", "no_conn", "connected"} :
       /\ conn' = [conn EXCEPT ![p] = (outcome = "connected")]
       /\ pc' = [pc EXCEPT ![p] =
                   CASE outcome = "no_env" -> "crashed"
                     [] outcome = "no_conn" -> "upload"
                     [] outcome = "connected" -> "create"]
       /\ err' = [err EXCEPT ![p] = IF outcome = "no_env" THEN "env" ELSE "none"]
  \* an abandoned connection is closed by the server: its work is rolled back
  /\ pending' = [pending EXCEPT ![p] = {}]
  /\ file_name' = [file_name EXCEPT ![p] = ""]
  /\ summary_dict' = [summary_dict EXCEPT ![p] = <<>>]
  /\ summary_columns' = [summary_columns EXCEPT ![p] = <<>>]
  /\ existing_columns' = [existing_columns EXCEPT ![p] = {}]
  /\ idx' = [idx EXCEPT ![p] = 1]
  /\ log' = [log EXCEPT ![p] = <<>>]
  /\ ui' = [ui EXCEPT ![p] = {}]
  /\ UNCHANGED <<table, driver, callee>>

\* lines 119-156: no file; a file that cannot be read or has one column; the
\* upload to S3; the flattening of the summary.
main_upload(p) ==
  /\ driver[p] = "main"
  /\ pc[p] = "upload"
  /\ \/ /\ pc' = [pc EXCEPT ![p] = "close"]
        /\ UNCHANGED <<file_name, summary_dict, summary_columns, err, ui>>
     \/ \E f \in Uploads, fault \in {"none", "read_csv", "s3"} :
          IF fault = "read_csv"
            THEN /\ pc' = [pc EXCEPT ![p] = "except"]
                 /\ err' = [err EXCEPT ![p] = "read_csv"]
                 /\ UNCHANGED <<file_name, summary_dict, summary_columns, ui>>
          ELSE IF f.ncols < 2
            THEN /\ pc' = [pc EXCEPT ![p] = "done"]
                 /\ err' = [err EXCEPT ![p] = "columns"]
                 /\ ui' = [ui EXCEPT ![p] = @ \cup {"failed"}]
                 /\ UNCHANGED <<file_name, summary_dict, summary_columns>>
          ELSE IF fault = "s3"
            THEN /\ pc' = [pc EXCEPT ![p] = "except"]
                 /\ err' = [err EXCEPT ![p] = "s3"]
                 /\ UNCHANGED <<file_name, summary_dict, summary_columns, ui>>
          ELSE IF ~conn[p]
            THEN /\ pc' = [pc EXCEPT ![p] = "plot"]
                 /\ ui' = [ui EXCEPT ![p] = @ \cup {"uploaded"}]
                 /\ UNCHANGED <<file_name, summary_dict, summary_columns, err>>
          ELSE IF f.numeric = <<>>
            \* describe() of text columns: float(val) of "top" raises
            THEN /\ pc' = [pc EXCEPT ![p] = "except"]
                 /\ err' = [err EXCEPT ![p] = "float"]
                 /\ ui' = [ui EXCEPT ![p] = @ \cup {"uploaded"}]
                 /\ UNCHANGED <<file_name, summary_dict, summary_columns>>
          ELSE /\ pc' = [pc EXCEPT ![p] = "show"]
               /\ ui' = [ui EXCEPT ![p] = @ \cup {"uploaded"}]
               /\ file_name' = [file_name EXCEPT ![p] = f.name]
               /\ summary_dict' = [summary_dict EXCEPT ![p] = FlatSummaryOf(f)]
               /\ summary_columns' =
                    [summary_columns EXCEPT ![p] = KeysOf(FlatSummaryOf(f))]
               /\ UNCHANGED err
  /\ UNCHANGED <<table, pending, driver, callee, conn, existing_columns, idx, log, runs>>

\* lines 168-187: pd.to_datetime and the plot may raise
main_plot(p) ==
  /\ driver[p] = "main"
  /\ pc[p] = "plot"
  /\ \E fault \in BOOLEAN :
       /\ pc' = [pc EXCEPT ![p] = IF fault THEN "except" ELSE "close"]
       /\ err' = [err EXCEPT ![p] = IF fault THEN "plot" ELSE @]
  /\ UNCHANGED <<table, pending, driver, callee, conn, file_name, summary_dict,
                 summary_columns, existing_columns, idx, log, ui, runs>>

\* lines 189-190
main_except(p) ==
  /\ driver[p] = "main"
  /\ pc[p] = "except"
  /\ ui' = [ui EXCEPT ![p] = @ \cup {"failed"}]
  /\ pc' = [pc EXCEPT ![p] = "close"]
  /\ UNCHANGED <<table, pending, driver, callee, conn, file_name, summary_dict,
                 summary_columns, existing_columns, idx, log, err, runs>>

\* lines 192-194: closing the connection rolls back what is not committed
main_close(p) ==
  /\ driver[p] = "main"
  /\ pc[p] = "close"
  /\ pending' = [pending EXCEPT ![p] = IF conn[p] THEN {} ELSE @]
  /\ conn' = [conn EXCEPT ![p] = FALSE]
  /\ pc' = [pc EXCEPT ![p] = "done"]
  /\ UNCHANGED <<table, driver, callee, file_name, summary_dict, summary_columns,
                 existing_columns, idx, log, err, ui, runs>>

Next ==
  \E p \in Procs :
    \/ main_start(p)
    \/ create_table_if_not_exists(p)
    \/ main_upload(p)
    \/ add_missing_columns_show(p)
    \/ add_missing_columns_skip(p)
    \/ add_missing_columns_alter(p)
    \/ add_missing_columns_return(p)
    \/ insert_summary(p)
    \/ commit(p)
    \/ main_plot(p)
    \/ main_except(p)
    \/ main_close(p)

Spec == Init /\ [][Next]_vars

\* main() is straight-line code: once a run has started, each of its steps
\* is taken, provided every call it makes to S3 and to MySQL returns or
\* raises.  When a user starts a run is up to the user.
Continue(p) ==
  \/ create_table_if_not_exists(p)
  \/ main_upload(p)
  \/ add_missing_columns_show(p)
  \/ add_missing_columns_skip(p)
  \/ add_missing_columns_alter(p)
  \/ add_missing_columns_return(p)
  \/ insert_summary(p)
  \/ commit(p)
  \/ main_plot(p)
  \/ main_except(p)
  \/ main_close(p)

FairSpec == Init /\ [][Next]_vars /\ \A p \in Procs : WF_vars(Continue(p))

\* ------------------------------------------------------------ direct calls
\* The three functions called on their own, with any arguments and in any
\* order, on connections that connect_mysql has opened.
KMean == <<"mean", "_", "Value">>
KStd == <<"std", "_", "Value">>
\* differs from KMean in letter case only
KMeanLower == <<"mean", "_", "value">>
\* x<backtick> FLOAT, ADD COLUMN <backtick>std_Value
KInject == <<"x", BT, FLOATKW, ADDSEP, BT, "std", "_", "Value">>
\* a<backtick><backtick>b
KEscaped == <<"a", BT, BT, "b">>
\* a<backtick>b
KBroken == <<"a", BT, "b">>

KeyLists ==
  { <<>>, <<KMean>>, <<KStd>>, <<KMean, KStd>>, <<KMeanLower>>, <<KInject>>,
    <<KEscaped>>, <<KMean, KBroken>> }

\* The mapping a caller passes: the first value has two significant digits,
\* the others have seven.
DictOf(ks) == [i \in 1..Len(ks) |-> <<ks[i], IF i = 1 THEN 10 ELSE 1234567>>]

FileNames == {"a.csv"}

InitCore ==
  /\ InitLocals
  /\ driver = [p \in Procs |-> "direct"]
  /\ pc = [p \in Procs |-> "ready"]
  /\ conn = [p \in Procs |-> TRUE]

Call(p, fn, entry) ==
  /\ driver[p] = "direct"
  /\ pc[p] = "ready"
  /\ runs < MaxCalls
  /\ runs' = runs + 1
  /\ pc' = [pc EXCEPT ![p] = entry]
  /\ callee' = [callee EXCEPT ![p] = fn]
  /\ err' = [err EXCEPT ![p] = "none"]
  /\ UNCHANGED <<table, pending, driver, conn, existing_columns, idx, log, ui>>

call_create_table_if_not_exists(p) ==
  /\ Call(p, "create", "create")
  /\ UNCHANGED <<file_name, summary_dict, summary_columns>>

call_add_missing_columns(p) ==
  /\ Call(p, "add", "show")
  /\ \E ks \in KeyLists : summary_columns' = [summary_columns EXCEPT ![p] = ks]
  /\ UNCHANGED <<file_name, summary_dict>>

call_insert_summary(p) ==
  /\ Call(p, "insert", "insert")
  /\ \E name \in FileNames, ks \in KeyLists :
       /\ file_name' = [file_name EXCEPT ![p] = name]
       /\ summary_dict' = [summary_dict EXCEPT ![p] = DictOf(ks)]
  /\ UNCHANGED summary_columns

call_commit(p) ==
  /\ Call(p, "commit", "commit")
  /\ UNCHANGED <<file_name, summary_dict, summary_columns>>

NextCore ==
  \E p \in Procs :
    \/ call_create_table_if_not_exists(p)
    \/ call_add_missing_columns(p)
    \/ call_insert_summary(p)
    \/ call_commit(p)
    \/ create_table_if_not_exists(p)
    \/ add_missing_columns_show(p)
    \/ add_missing_columns_skip(p)
    \/ add_missing_columns_alter(p)
    \/ add_missing_columns_return(p)
    \/ insert_summary(p)
    \/ commit(p)

SpecCore == InitCore /\ [][NextCore]_vars

\* ------------------------------------------------------------ event phases
\* The phase of the ingestion event of a run of main(): what the run has
\* completed so far, and whether an exception has ended it.
Did(p, fn) == \E i \in DOMAIN log[p] : log[p][i].fn = fn

Phase(p) ==
  IF Did(p, "commit") THEN "WRITTEN"
  ELSE IF err[p] # "none" THEN "FAILED"
  ELSE IF Did(p, "add") THEN "PROVISIONED"
  ELSE IF Did(p, "create") THEN "BOOTSTRAPPED"
  ELSE "START"

\* A step taken by connection p.
StepOf(p) == pc'[p] # pc[p] \/ idx'[p] # idx[p]

\* The step in which p's call of fn returns without error.
Returns(p, fn) ==
  /\ Len(log'[p]) = Len(log[p]) + 1
  /\ log'[p][Len(log'[p])].fn = fn

\* The keys that were not columns when add_missing_columns read the column
\* list, and those of them that its loop has added so far.
MissingKeys(p) ==
  {k \in Range(summary_columns[p]) : IsMissing(k, existing_columns[p])}

AddedKeys(p) ==
  {summary_columns[p][i] : i \in 1..(idx[p] - 1)} \cap MissingKeys(p)

\* ------------------------------------------------------------------ claims

\* C1: whenever add_missing_columns has returned without error, every key it
\* was given is a column of the table.  (Stated as the claim states it, for
\* every key list; refuted by keys that contain the quote character.)
C1_ProvisionedKeysAreColumns ==
  \A p \in Procs : \A i \in DOMAIN log[p] :
    log[p][i].fn = "add" =>
      \A k \in Range(log[p][i].keys) : HasColumn(table.columns, k)

\* C2: a connection that calls add_missing_columns again with a key set for
\* which an earlier call of it returned without error issues no ADD COLUMN
\* statement, gets no error from the server and leaves the columns unchanged.
SecondCall(p) ==
  /\ callee[p] = "add"
  /\ pc[p] \in {"show", "loop"}
  /\ \E i \in DOMAIN log[p] :
       /\ log[p][i].fn = "add"
       /\ Range(log[p][i].keys) = Range(summary_columns[p])

C2_SecondProvisionIsNoOp ==
  [][\A p \in Procs :
       (SecondCall(p) /\ StepOf(p)) =>
         /\ ~(/\ pc[p] = "loop"
              /\ idx[p] <= Len(summary_columns[p])
              /\ IsMissing(summary_columns[p][idx[p]], existing_columns[p]))
         /\ err'[p] \in {"none", "store"}
         /\ table'.columns = table.columns]_vars

\* C3: create_table_if_not_exists is idempotent: a call that succeeds leaves
\* a table on which a further call changes nothing; on an existing table
\* (fresh, or widened and holding rows) the call itself changes nothing, and
\* on an absent one it creates the three fixed columns and no row.
C3_EnsureTableIdempotent ==
  [][\A p \in Procs :
       Returns(p, "create") =>
         /\ table'.exists
         /\ ExecCreateTable(table') = table'
         /\ table.exists => table' = table
         /\ ~table.exists =>
              table'.columns = FixedColumns /\ table'.rows = {}]_vars

\* C3 witness: the call has just returned on a table that has dynamic columns
\* and rows.
C3_Witness ==
  \E p \in Procs :
    /\ pc[p] = "upload"
    /\ Did(p, "create")
    /\ table.rows # {}
    /\ table.columns # FixedColumns

DisjointKeys(ks1, ks2) ==
  \A i \in DOMAIN ks1, j \in DOMAIN ks2 : Lower(ks1[i]) # Lower(ks2[j])

C5_Scenario(p, q) ==
  /\ p # q
  /\ runs = 3
  /\ table.exists
  /\ pc[p] = "ready" /\ pc[q] = "ready"
  /\ callee[p] = "add" /\ callee[q] = "add"
  /\ err[p] \notin {"store", "no_table"} /\ err[q] \notin {"store", "no_table"}
  /\ DisjointKeys(summary_columns[p], summary_columns[q])

C5_DisjointProvisioningSucceeds ==
  \A p, q \in Procs :
    C5_Scenario(p, q) =>
      /\ err[p] = "none" /\ err[q] = "none"
      /\ table.columns =
           FixedColumns \cup Range(summary_columns[p]) \cup Range(summary_columns[q])

\* C6: a duplicate-column error of ADD COLUMN never fails an ingestion event.
C6_DuplicateColumnIsBenign ==
  \A p \in Procs : ~(err[p] = "dup_column" /\ Phase(p) = "FAILED")

\* C7: in a run of main() the calls complete in the order bootstrap,
\* provisioning with the event's keys, insert, commit, none skipped; so
\* insert_summary is executed only after the other two have returned.
EventOrder == <<"create", "add", "insert", "commit">>

C7_BootstrapProvisionWrite ==
  \A p \in Procs :
    /\ Len(log[p]) <= Len(EventOrder)
    /\ \A i \in DOMAIN log[p] :
         /\ log[p][i].fn = EventOrder[i]
         /\ log[p][i].fn = "add" => log[p][i].keys = KeysOf(summary_dict[p])
    /\ pc[p] = "insert" => Len(log[p]) = 2
    /\ pc[p] \in {"show", "loop"} => Len(log[p]) = 1

\* C7 witness: an event is about to execute its insert.
C7_Witness ==
  \E p \in Procs : pc[p] = "insert" /\ Did(p, "add") /\ summary_dict[p] # <<>>

\* C8: when an event's insert is about to execute, every key of its stats is
\* a column of the table, and distinct keys are distinct columns.
C8_KeysAreColumnsAtInsert ==
  \A p \in Procs :
    pc[p] = "insert" =>
      /\ Range(KeysOf(summary_dict[p])) \subseteq table.columns
      /\ NoDuplicates(KeysOf(summary_dict[p]))

\* C8 witness: an event is about to insert while the other connection is in
\* the middle of adding its columns.
C8_Witness ==
  \E p, q \in Procs :
    /\ pc[p] = "insert"
    /\ pc[q] = "loop"
    /\ AddedKeys(q) # {}
    /\ idx[q] <= Len(summary_columns[q])

\* C9: once an event has ended, the columns its provisioning added are all
\* of the keys that were missing, or none of them.
C9_AllOrNothingProvisioning ==
  \A p \in Procs :
    Phase(p) \in {"WRITTEN", "FAILED"} =>
      AddedKeys(p) = {} \/ AddedKeys(p) = MissingKeys(p)

\* C10: a successful insert_summary adds exactly one new row to what the
\* connection sees, inside its transaction; the rows that were there are
\* still there with all their values, whatever their filename, and neither
\* the committed rows, nor the columns, nor another connection's
\* transaction change.
Visible(p) == table.rows \cup pending[p]

C10_InsertAddsOneRow ==
  [][\A p \in Procs :
       Returns(p, "insert") =>
         /\ \E r \in pending'[p] :
              /\ r \notin Visible(p)
              /\ \A o \in Visible(p) : o[<<"id">>] # r[<<"id">>]
              /\ r[<<"filename">>] = file_name[p]
              /\ table'.rows \cup pending'[p] = Visible(p) \cup {r}
         /\ table'.rows = table.rows
         /\ table'.columns = table.columns
         /\ \A q \in Procs \ {p} : pending'[q] = pending[q]]_vars

\* C10 witness: a connection sees two rows that have the same filename.
C10_Witness ==
  \E p \in Procs : \E r1, r2 \in Visible(p) :
    r1 # r2 /\ r1[<<"filename">>] = r2[<<"filename">>]

\* Reading column `k` of a row that a SELECT returns: the name resolves
\* without regard to case.
ReadColumn(r, k) == r[CHOOSE c \in DOMAIN r : Lower(c) = Lower(k)]

\* C11: round trip.  When insert_summary returns without error for a mapping
\* whose keys add_missing_columns has provisioned, the row it has inserted
\* reads, for every key k, exactly the value the mapping gives k, the
\* supplied filename in filename, and NULL in every other added column.
\* (Refuted by a value of more than FLT_DIG significant digits.)
C11_RoundTrip ==
  [][\A p \in Procs :
       (/\ Returns(p, "insert")
        /\ \E i \in DOMAIN log[p] :
             log[p][i] = [fn |-> "add", keys |-> KeysOf(summary_dict[p])])
       => \A r \in pending'[p] \ Visible(p) :
            LET S == summary_dict[p]
            IN /\ \A i \in DOMAIN S :
                    /\ HasColumn(DOMAIN r, S[i][1])
                    /\ ReadColumn(r, S[i][1]) = <<S[i][2]>>
               /\ r[<<"filename">>] = file_name[p]
               /\ \A c \in DOMAIN r \ FixedColumns :
                    ~HasColumn(Range(KeysOf(S)), c) => r[c] = NULL]_vars

\* The text is one quoted identifier: it opens with the quote character, and
\* the server's lexer reads all of it up to its last character as one name,
\* which is so exactly when every quote character inside it is doubled.
SingleIdentifier(text) ==
  /\ Len(text) >= 2
  /\ text[1] = BT
  /\ LET id == LexIdent(text, 2, <<>>) IN id.ok /\ id.next = Len(text) + 1

\* C12: identifier safety.  No function rejects a key, so every key reaches
\* a statement: the text that stands for the key in the ALTER TABLE statement
\* add_missing_columns is about to issue, and in the column list of the
\* INSERT statement insert_summary is about to issue, is a single quoted
\* identifier.  (Refuted by a key that contains one quote character.)
C12_IdentifiersAreQuoted ==
  \A p \in Procs :
    /\ (pc[p] = "loop" /\ idx[p] <= Len(summary_columns[p])
          /\ IsMissing(summary_columns[p][idx[p]], existing_columns[p]))
        => SingleIdentifier(col_safe(summary_columns[p][idx[p]]))
    /\ pc[p] = "insert"
        => \A k \in Range(InsertColumns(summary_dict[p])) :
             SingleIdentifier(col_safe(k))

\* The columns that the INSERT statement insert_summary is about to issue
\* names, as the server reads them; none when the list does not parse.
NamedColumns(p) ==
  LET parsed == ParseColumnList(ColStr(InsertColumns(summary_dict[p])), 1, <<>>)
  IN IF parsed.ok THEN Range(parsed.cols) ELSE {}

\* C13: when insert_summary runs a statement whose column list names a
\* column the table does not have, the call ends with an error, no row is
\* written, and the table has the columns it had: the key is neither dropped
\* from the row nor created as a column.
C13_UnknownColumnIsRejected ==
  [][\A p \in Procs :
       (/\ pc[p] = "insert"
        /\ pc'[p] # "insert"
        /\ \E n \in NamedColumns(p) : ~HasColumn(table.columns, n))
       => /\ err'[p] # "none"
          /\ ~Returns(p, "insert")
          /\ pending' = pending
          /\ table' = table]_vars

\* C13 witness: the server has refused an insert_summary for a column that
\* an existing table does not have, and the connection has no row.
C13_Witness ==
  \E p \in Procs :
    /\ callee[p] = "insert"
    /\ pc[p] = "ready"
    /\ err[p] = "unknown_column"
    /\ table.exists
    /\ \E n \in NamedColumns(p) : ~HasColumn(table.columns, n)
    /\ Visible(p) = {}

\* C14: no partial success and no internal retry.  A run of main() shows
\* "saved" only when create, add, insert and commit have all completed for
\* its event; an event that has failed shows no "saved", shows the failure
\* by the time main() reaches its end (an exception of the bootstrap leaves
\* main() uncaught), and from the failure on the run only goes to its end:
\* it completes no further call, changes neither the table nor other
\* connections' rows, and gains no row of its own.
C14_NoPartialSuccessNoRetry ==
  /\ [](\A p \in Procs :
         /\ "saved" \in ui[p] => \A i \in DOMAIN EventOrder : Did(p, EventOrder[i])
         /\ Phase(p) = "FAILED" =>
              /\ "saved" \notin ui[p]
              /\ pc[p] \in {"except", "close", "done", "crashed"}
              /\ pc[p] \in {"close", "done"} => "failed" \in ui[p])
  /\ [][\A p \in Procs :
         (Phase(p) = "FAILED" /\ StepOf(p) /\ runs' = runs)
         => /\ pc'[p] \in {"close", "done"}
            /\ log'[p] = log[p]
            /\ table' = table
            /\ pending'[p] \subseteq pending[p]
            /\ \A q \in Procs \ {p} : pending'[q] = pending[q]]_vars

\* C14 witness: a run whose insert has failed after its provisioning has
\* ended: it shows the failure and not "saved".
C14_Witness ==
  \E p \in Procs :
    /\ pc[p] = "done"
    /\ Phase(p) = "FAILED"
    /\ Did(p, "add")
    /\ ~Did(p, "insert")
    /\ "failed" \in ui[p]
    /\ "saved" \notin ui[p]

\* C15: provisioning compares keys with the existing columns under a
\* canonical case.  When the loop of add_missing_columns reaches a key that
\* names, without regard to case, a column SHOW COLUMNS has returned, the key
\* is not missing: no ALTER TABLE is issued for it.  (Refuted by
\* mean_value when the table has mean_Value.)
C15_CaseInsensitiveProvisioning ==
  \A p \in Procs :
    (/\ pc[p] = "loop"
     /\ idx[p] <= Len(summary_columns[p])
     /\ HasColumn(existing_columns[p], summary_columns[p][idx[p]]))
    => ~IsMissing(summary_columns[p][idx[p]], existing_columns[p])

\* C16: adding a column leaves the rows valid and otherwise unchanged.  In a
\* step of add_missing_columns that adds columns, the connection sees as
\* many rows after the step as before it, and every row it saw is still
\* there with its value in every column it had and NULL in every added
\* column.
C16_AddColumnKeepsRows ==
  [][\A p \in Procs :
       (pc[p] = "loop" /\ StepOf(p) /\ table'.columns # table.columns)
       => /\ Cardinality(table'.rows \cup pending'[p]) = Cardinality(Visible(p))
          /\ \A r \in Visible(p) : \E w \in table'.rows \cup pending'[p] :
               /\ DOMAIN w = table'.columns
               /\ \A c \in table.columns : w[c] = r[c]
               /\ \A c \in table'.columns \ table.columns : w[c] = NULL]_vars

\* C16 witness: the loop of add_missing_columns has added a column to a
\* table that had a committed row before the run started (no other
\* connection has run).
C16_Witness ==
  \E p \in Procs :
    /\ pc[p] = "loop"
    /\ AddedKeys(p) # {}
    /\ \A q \in Procs \ {p} : pc[q] = "idle"
    /\ \E r \in table.rows : \E k \in AddedKeys(p) : r[k] = NULL

\* lines 71-77: the statement insert_summary builds from its arguments.
SqlOf(name, ts, d) ==
  InsertSql(ColStr(InsertColumns(d)), Placeholders(InsertValues(name, ts, d)))

\* C17: the INSERT statement of insert_summary.  Its column list is
\* filename, timestamp and then the keys in the order of the mapping, each
\* between quote characters; it has one placeholder per column; the i-th
\* bound value is the filename, the timestamp, and then the mapping's value
\* for the i-th key; and the text does not depend on the values.
C17_InsertStatementShape ==
  \A p \in Procs :
    (pc[p] = "insert" \/ Did(p, "insert")) =>
    LET S == summary_dict[p]
        ts == Now(runs)
        columns == InsertColumns(S)
        values == InsertValues(file_name[p], ts, S)
        sql == SqlOf(file_name[p], ts, S)
        n == Len(S) + 2
    IN /\ Len(columns) = n /\ Len(values) = n
       /\ columns[1] = <<"filename">> /\ columns[2] = <<"timestamp">>
       /\ values[1] = file_name[p] /\ values[2] = ts
       /\ \A i \in DOMAIN S : columns[i + 2] = S[i][1] /\ values[i + 2] = S[i][2]
       /\ sql = <<INSERTKW>>
                 \o Join([i \in 1..n |-> <<BT>> \o columns[i] \o <<BT>>], COMMA)
                 \o <<VALUESKW>>
                 \o Join([i \in 1..n |-> <<PARAM>>], COMMA)
                 \o <<CLOSEKW>>
       /\ sql = SqlOf("", <<>>, [i \in DOMAIN S |-> <<S[i][1], 0>>])

\* C17 witness: insert_summary has inserted a row for a mapping of two keys
\* that have different values, and each value is in its key's column.
C17_Witness ==
  \E p \in Procs :
    /\ callee[p] = "insert" /\ pc[p] = "ready" /\ err[p] = "none"
    /\ Len(summary_dict[p]) = 2
    /\ summary_dict[p][1][2] # summary_dict[p][2][2]
    /\ \E r \in pending[p] : \A i \in DOMAIN summary_dict[p] :
         /\ summary_dict[p][i][1] \in DOMAIN r
         /\ r[summary_dict[p][i][1]] = StoreAs(summary_dict[p][i][1], summary_dict[p][i][2])

\* C18: every ingestion event ends.  The event of a run of main() starts
\* when main() hands the flattened summary to add_missing_columns.  From
\* there the run reaches WRITTEN or FAILED; while the run lasts, an event
\* that is WRITTEN or FAILED stays so; and a store call that ends with a
\* connectivity error or a timeout before the commit has completed leaves
\* the event FAILED.
C18_EventsTerminate ==
  /\ \A p \in Procs :
       (pc[p] = "show") ~> (Phase(p) \in {"WRITTEN", "FAILED"})
  /\ [][\A p \in Procs :
         /\ (Phase(p) \in {"WRITTEN", "FAILED"} /\ runs' = runs)
            => Phase(p)' = Phase(p)
         /\ (StepOf(p) /\ runs' = runs /\ err'[p] = "store" /\ err[p] # "store")
            => Phase(p)' = "FAILED"]_vars

\* C18 witness: one run has ended WRITTEN and another has ended FAILED on a
\* store call that did not complete.
C18_Witness ==
  \E p, q \in Procs :
    /\ pc[p] = "done" /\ Phase(p) = "WRITTEN"
    /\ pc[q] = "done" /\ Phase(q) = "FAILED" /\ err[q] = "store"
    /\ Did(q, "add")

\* The ids of the rows of the table that are committed.
CommittedIds == {r[<<"id">>] : r \in table.rows}

\* C19: a failed event leaves the rows as they were.  The committed rows
\* change only in the step in which a run's conn.commit() returns, by the
\* rows of that run's transaction; a run whose event has failed has no
\* commit among its completed calls, and at its end its transaction holds no
\* row, whatever columns it has added.
C19_FailedEventAddsNoRow ==
  /\ [][CommittedIds' # CommittedIds =>
          \E p \in Procs :
            /\ Returns(p, "commit")
            /\ Did(p, "insert")
            /\ CommittedIds' = CommittedIds \cup {r[<<"id">>] : r \in pending[p]}]_vars
  /\ [](\A p \in Procs :
         Phase(p) = "FAILED" =>
           /\ ~Did(p, "commit")
           /\ pc[p] = "done" => pending[p] = {})

\* C19 witness: a run has added columns and inserted its row, its commit
\* has failed and the run has ended: the columns are there, the row is not.
C19_Witness ==
  \E p \in Procs :
    /\ pc[p] = "done"
    /\ Phase(p) = "FAILED"
    /\ Did(p, "insert")
    /\ AddedKeys(p) # {}
    /\ AddedKeys(p) \subseteq table.columns
    /\ table.rows = {}
    /\ pending[p] = {}

====
